---- MODULE Spec2Model ----
(***************************************************************************)
(* Model of package payments (payments/payment.go): the two client         *)
(* operations New and NewFromInvoice, the JSON encoding of their           *)
(* arguments, and the custom decoder Payment.UnmarshalJSON with the parts  *)
(* of encoding/json, strconv and fmt it relies on.                         *)
(*                                                                         *)
(* Text that the code parses or formats (number literals, identifiers) is  *)
(* a sequence of one-character strings.  A natural number is a sequence of *)
(* decimal digits, most significant first, without leading zeros (<<>> is  *)
(* zero), so that values beyond 2^31 keep their exact value.               *)
(***************************************************************************)
EXTENDS Integers, Sequences, FiniteSets, TLC

VARIABLES pc, op, pa, ipa, resp, b, ov, p, calls, ret

vars == <<pc, op, pa, ipa, resp, b, ov, p, calls, ret>>

-----------------------------------------------------------------------------
(* Characters and decimal naturals *)

DigitChars == <<"0", "1", "2", "3", "4", "5", "6", "7", "8", "9">>

IsDigit(c) == \E i \in 1..10 : DigitChars[i] = c

DigitVal(c) == (CHOOSE i \in 1..10 : DigitChars[i] = c) - 1

Last(s) == s[Len(s)]

Front(s) == SubSeq(s, 1, Len(s) - 1)

Zeros(n) == [i \in 1..n |-> 0]

RECURSIVE StripLeadingZeros(_)
StripLeadingZeros(d) ==
  IF d # <<>> /\ Head(d) = 0 THEN StripLeadingZeros(Tail(d)) ELSE d

RECURSIVE StripTrailingZeros(_)
StripTrailingZeros(d) ==
  IF d # <<>> /\ Last(d) = 0 THEN StripTrailingZeros(Front(d)) ELSE d

RECURSIVE LexLess(_, _)
LexLess(x, y) ==
  IF x = <<>> \/ y = <<>> THEN x = <<>> /\ y # <<>>
  ELSE IF Head(x) # Head(y) THEN Head(x) < Head(y)
  ELSE LexLess(Tail(x), Tail(y))

\* x < y for naturals without leading zeros
NatLess(x, y) ==
  IF Len(x) # Len(y) THEN Len(x) < Len(y) ELSE LexLess(x, y)

RECURSIVE HalfRec(_, _, _)
HalfRec(d, carry, acc) ==
  IF d = <<>> THEN [q |-> StripLeadingZeros(acc), r |-> carry]
  ELSE LET cur == carry * 10 + Head(d)
       IN  HalfRec(Tail(d), cur % 2, Append(acc, cur \div 2))

\* quotient and remainder of d by 2
Half(d) == HalfRec(d, 0, <<>>)

RECURSIVE DoubleRec(_, _, _)
DoubleRec(d, carry, acc) ==
  IF d = <<>> THEN (IF carry = 0 THEN acc ELSE <<carry>> \o acc)
  ELSE LET cur == 2 * Last(d) + carry
       IN  DoubleRec(Front(d), cur \div 10, <<cur % 10>> \o acc)

Double(d) == DoubleRec(d, 0, <<>>)

RECURSIVE Inc(_)
Inc(d) ==
  IF d = <<>> THEN <<1>>
  ELSE IF Last(d) < 9 THEN Append(Front(d), Last(d) + 1)
  ELSE Append(Inc(Front(d)), 0)

IsOdd(d) == d # <<>> /\ Last(d) % 2 = 1

RECURSIVE Times2Pow(_, _)
Times2Pow(d, k) == IF k = 0 THEN d ELSE Times2Pow(Double(d), k - 1)

\* 2^53: float64 carries a 53-bit significand
Pow2_53 == <<9, 0, 0, 7, 1, 9, 9, 2, 5, 4, 7, 4, 0, 9, 9, 2>>

\* 2^63: one more than the largest int (int is int64)
Pow2_63 == <<9, 2, 2, 3, 3, 7, 2, 0, 3, 6, 8, 5, 4, 7, 7, 5, 8, 0, 8>>

-----------------------------------------------------------------------------
(* float64 and int                                                         *)
(*                                                                         *)
(* A float64 is [cls, neg, ip, fp]: its class, sign, and for a finite      *)
(* value the decimal digits of its integer part (ip) and of its fraction   *)
(* (fp, no trailing zeros).  An integer part of 2^53 or more is rounded to *)
(* the 53-bit significand (round half to even); below 2^53 the model keeps *)
(* the decimal value, which identifies the float64 for the literals of at  *)
(* most 15 significant digits that the inputs below use.                   *)

F64(neg, ip, fp) == [cls |-> "fin", neg |-> neg, ip |-> ip, fp |-> fp]

ZeroF64 == F64(FALSE, <<>>, <<>>)

InfF64(neg) == [cls |-> "inf", neg |-> neg, ip |-> <<>>, fp |-> <<>>]

NaNF64 == [cls |-> "nan", neg |-> FALSE, ip |-> <<>>, fp |-> <<>>]

\* f == 0 in Go: both zeros compare equal to 0
IsZeroF64(f) == f.cls = "fin" /\ f.ip = <<>> /\ f.fp = <<>>

RECURSIVE ShiftDown(_, _, _, _)
ShiftDown(q, k, rnd, sticky) ==
  LET Halved(h) == ShiftDown(h.q, k + 1, h.r = 1, sticky \/ rnd)
  IN  IF NatLess(q, Pow2_53)
      THEN [q |-> q, k |-> k, rnd |-> rnd, sticky |-> sticky]
      ELSE Halved(Half(q))

\* the float64 nearest to the natural ip (plus a fraction when sticky), ip >= 2^53
RoundNat(ip, sticky) ==
  LET Rounded(s) ==
        Times2Pow(IF s.rnd /\ (s.sticky \/ IsOdd(s.q)) THEN Inc(s.q) ELSE s.q, s.k)
  IN  Rounded(ShiftDown(ip, 0, FALSE, sticky))

\* an int is [neg, mag]; zero is never negative
IntOf(neg, mag) == [neg |-> neg /\ mag # <<>>, mag |-> mag]

ZeroInt == IntOf(FALSE, <<>>)

MinInt == IntOf(TRUE, Pow2_63)

MaxInt == IntOf(FALSE, <<9, 2, 2, 3, 3, 7, 2, 0, 3, 6, 8, 5, 4, 7, 7, 5, 8, 0, 7>>)

InIntRange(neg, mag) ==
  NatLess(mag, Pow2_63) \/ (neg /\ mag = Pow2_63)

\* What int(f) may give when f is outside the range of int: the Go
\* specification leaves the result to the implementation.  amd64 gives the
\* minimum int, arm64 saturates.
IntOverflowOutcomes == {"min", "saturate"}

\* int(f): the conversion of payment.go:145, truncating toward zero
F64ToInt(f, o) ==
  IF f.cls = "fin" /\ InIntRange(f.neg, f.ip) THEN IntOf(f.neg, f.ip)
  ELSE IF o = "min" THEN MinInt
  ELSE IF f.cls = "nan" THEN ZeroInt
  ELSE IF f.neg THEN MinInt ELSE MaxInt

\* fmt.Sprintf("%d", n)
FormatInt(n) ==
  (IF n.neg THEN <<"-">> ELSE <<>>) \o
  (IF n.mag = <<>> THEN <<"0">> ELSE [i \in 1..Len(n.mag) |-> DigitChars[n.mag[i] + 1]])

-----------------------------------------------------------------------------
(* strconv.ParseFloat and strconv.ParseInt (decimal syntax; the inputs use *)
(* no hexadecimal literal and no underscore)                               *)

Lower(c) ==
  CASE c = "E" -> "e" [] c = "I" -> "i" [] c = "N" -> "n" [] c = "F" -> "f"
    [] c = "A" -> "a" [] c = "T" -> "t" [] c = "Y" -> "y" [] OTHER -> c

LowerSeq(s) == [i \in 1..Len(s) |-> Lower(s[i])]

InfWords ==
  { <<"i", "n", "f">>, <<"i", "n", "f", "i", "n", "i", "t", "y">> }

\* strconv.special: [ok, f]
special(s) ==
  LET Word(ls, signed) ==
        IF (IF signed THEN Tail(ls) ELSE ls) \in InfWords
        THEN [ok |-> TRUE, f |-> InfF64(signed /\ ls[1] = "-")]
        ELSE IF ls = <<"n", "a", "n">> THEN [ok |-> TRUE, f |-> NaNF64]
        ELSE [ok |-> FALSE, f |-> ZeroF64]
      Signed(ls) == Word(ls, ls # <<>> /\ ls[1] \in {"+", "-"})
  IN  Signed(LowerSeq(s))

RECURSIVE ScanMantissa(_, _, _)
ScanMantissa(s, i, sawdot) ==
  IF i > Len(s) THEN i
  ELSE IF IsDigit(s[i]) THEN ScanMantissa(s, i + 1, sawdot)
  ELSE IF s[i] = "." /\ ~sawdot THEN ScanMantissa(s, i + 1, TRUE)
  ELSE i

RECURSIVE ScanDigits(_, _)
ScanDigits(s, i) ==
  IF i <= Len(s) /\ IsDigit(s[i]) THEN ScanDigits(s, i + 1) ELSE i

DigitsOf(s) == LET ds == SelectSeq(s, IsDigit) IN [i \in 1..Len(ds) |-> DigitVal(ds[i])]

\* the exponent's value; readFloat stops accumulating at 10000
RECURSIVE ExpVal(_, _)
ExpVal(ds, e) ==
  IF ds = <<>> THEN e
  ELSE ExpVal(Tail(ds), IF e < 10000 THEN e * 10 + Head(ds) ELSE e)

\* strconv.readFloat: [ok, n, neg, digits, nfrac, exp], n the characters consumed
readFloat(s) ==
  LET bad == [ok |-> FALSE, n |-> 0, neg |-> FALSE, digits |-> <<>>, nfrac |-> 0, exp |-> 0]
      Read(n, digits, nfrac, exp) ==
        [ok |-> TRUE, n |-> n, neg |-> s # <<>> /\ s[1] = "-",
         digits |-> digits, nfrac |-> nfrac, exp |-> exp]
      \* the exponent's digits are s[i3..i4-1]
      Exponent(digits, nfrac, eneg, i3, i4, emag) ==
        IF i4 = i3 THEN bad
        ELSE Read(i4 - 1, digits, nfrac, IF eneg THEN 0 - emag ELSE emag)
      ExponentAt(digits, nfrac, eneg, i3, i4) ==
        Exponent(digits, nfrac, eneg, i3, i4, ExpVal(DigitsOf(SubSeq(s, i3, i4 - 1)), 0))
      \* the exponent's sign, if any, is s[i2]
      ExponentSign(digits, nfrac, i2, eslen) ==
        ExponentAt(digits, nfrac, i2 <= Len(s) /\ s[i2] = "-",
                   i2 + eslen, ScanDigits(s, i2 + eslen))
      \* the mantissa is s[..i1-1]
      Mantissa(i1, digits, nfrac) ==
        IF digits = <<>> THEN bad
        ELSE IF ~(i1 <= Len(s) /\ Lower(s[i1]) = "e") THEN Read(i1 - 1, digits, nfrac, 0)
        ELSE ExponentSign(digits, nfrac, i1 + 1,
               IF i1 + 1 <= Len(s) /\ s[i1 + 1] \in {"+", "-"} THEN 1 ELSE 0)
      Dotted(i1, mant, dotAt) ==
        Mantissa(i1, DigitsOf(mant), IF dotAt = 0 THEN 0 ELSE Len(mant) - dotAt)
      MantissaOf(i1, mant) ==
        Dotted(i1, mant,
               IF \E i \in 1..Len(mant) : mant[i] = "."
               THEN CHOOSE i \in 1..Len(mant) : mant[i] = "." ELSE 0)
      MantissaTo(slen, i1) == MantissaOf(i1, SubSeq(s, slen + 1, i1 - 1))
      Signed(slen) == MantissaTo(slen, ScanMantissa(s, slen + 1, FALSE))
  IN  Signed(IF s # <<>> /\ s[1] \in {"+", "-"} THEN 1 ELSE 0)

\* The smallest decimal that rounds to +Inf, 1.797693134862315808e308
\* (the largest float64 plus half a unit in the last place), as digits
OverflowDigits == <<1, 7, 9, 7, 6, 9, 3, 1, 3, 4, 8, 6, 2, 3, 1, 5, 8, 0, 8>>

\* the value digits * 10^e as a float64: [err, f]; err is "" or "range"
DecimalToF64(neg, digits, e) ==
  LET \* the value is 0.d2 * 10^order, its integer part ip and fraction fp
      Placed(d2, order, ip, fp) ==
        IF d2 = <<>> THEN [err |-> "", f |-> F64(neg, <<>>, <<>>)]
        ELSE IF order > 309 \/ (order = 309 /\ ~LexLess(d2, OverflowDigits))
        THEN [err |-> "range", f |-> InfF64(neg)]
        ELSE IF order < 0 - 323 THEN [err |-> "", f |-> F64(neg, <<>>, <<>>)]
        ELSE IF NatLess(ip, Pow2_53) THEN [err |-> "", f |-> F64(neg, ip, fp)]
        ELSE [err |-> "", f |-> F64(neg, RoundNat(ip, fp # <<>>), <<>>)]
      \* the value is d2 * 10^e2, d2 without leading or trailing zeros
      Scaled(d2, e2, order) ==
        Placed(d2, order,
               IF e2 >= 0 THEN d2 \o Zeros(e2)
               ELSE IF order <= 0 THEN <<>> ELSE SubSeq(d2, 1, order),
               IF e2 >= 0 THEN <<>>
               ELSE IF order <= 0 THEN Zeros(0 - order) \o d2
               ELSE SubSeq(d2, order + 1, Len(d2)))
      Trimmed(d1, d2) == Scaled(d2, e + (Len(d1) - Len(d2)), Len(d1) + e)
      Stripped(d1) == Trimmed(d1, StripTrailingZeros(d1))
  IN  Stripped(StripLeadingZeros(digits))

\* strconv.ParseFloat(s, 64): [err, f]; err is "", "syntax" or "range"
ParseFloat(s) ==
  LET Decimal(r) ==
        IF ~r.ok \/ r.n # Len(s) THEN [err |-> "syntax", f |-> ZeroF64]
        ELSE DecimalToF64(r.neg, r.digits, r.exp - r.nfrac)
      Special(sp) == IF sp.ok THEN [err |-> "", f |-> sp.f] ELSE Decimal(readFloat(s))
  IN  Special(special(s))

\* strconv.ParseInt(s, 10, 64): [err, n]
ParseInt(s) ==
  LET Magnitude(neg, body, mag) ==
        IF body = <<>> \/ \E i \in 1..Len(body) : ~IsDigit(body[i])
        THEN [err |-> "syntax", n |-> ZeroInt]
        ELSE IF ~InIntRange(neg, mag) THEN [err |-> "range", n |-> ZeroInt]
        ELSE [err |-> "", n |-> IntOf(neg, mag)]
      Unsigned(neg, body) == Magnitude(neg, body, StripLeadingZeros(DigitsOf(body)))
      Signed(slen) == Unsigned(s # <<>> /\ s[1] = "-", SubSeq(s, slen + 1, Len(s)))
  IN  Signed(IF s # <<>> /\ s[1] \in {"+", "-"} THEN 1 ELSE 0)

-----------------------------------------------------------------------------
(* Errors and JSON documents *)

\* An error value; NoError is the nil error
Err(msg) == [msg |-> msg, cause |-> ""]

NoError == Err("")

\* eris.Wrap(e, msg)
Wrap(e, msg) == [msg |-> msg, cause |-> e.msg]

\* A JSON value is [k, v].  An object's v maps member names to values; a
\* member mapped to JAbsent is not present.  Malformed stands for bytes
\* that are no JSON text.
JAbsent == [k |-> "absent", v |-> <<>>]

JNull == [k |-> "null", v |-> <<>>]

JBool(x) == [k |-> "bool", v |-> x]

JNum(lit) == [k |-> "num", v |-> lit]

JStr(x) == [k |-> "str", v |-> x]

JArr(elems) == [k |-> "arr", v |-> elems]

JObj(members) == [k |-> "obj", v |-> members]

Malformed == [k |-> "malformed", v |-> <<>>]

\* the number grammar of encoding/json's scanner:
\* -? (0 | [1-9][0-9]*) (. [0-9]+)? ([eE] [+-]? [0-9]+)?
IsJSONNumber(s) ==
  LET \* integer part s[i0..i1-1], fraction to i2-1, exponent digits s[i3..i4-1]
      Exp(i0, i1, frac, i2, hasE, i3, i4) ==
        /\ i1 > i0
        /\ frac => i2 > i1 + 1
        /\ hasE => i4 > i3
        /\ i4 = Len(s) + 1
      ExpAt(i0, i1, frac, i2, hasE, i3) ==
        Exp(i0, i1, frac, i2, hasE, i3, IF hasE THEN ScanDigits(s, i3) ELSE i2)
      ExpMark(i0, i1, frac, i2, hasE) ==
        ExpAt(i0, i1, frac, i2, hasE,
              IF hasE /\ i2 + 1 <= Len(s) /\ s[i2 + 1] \in {"+", "-"}
              THEN i2 + 2 ELSE i2 + 1)
      Frac(i0, i1, frac, i2) ==
        ExpMark(i0, i1, frac, i2, i2 <= Len(s) /\ s[i2] \in {"e", "E"})
      FracMark(i0, i1, frac) ==
        Frac(i0, i1, frac, IF frac THEN ScanDigits(s, i1 + 1) ELSE i1)
      IntPart(i0, i1) == FracMark(i0, i1, i1 <= Len(s) /\ s[i1] = ".")
      Signed(i0) ==
        IntPart(i0, IF i0 <= Len(s) /\ s[i0] = "0" THEN i0 + 1 ELSE ScanDigits(s, i0))
  IN  Signed(IF s # <<>> /\ s[1] = "-" THEN 2 ELSE 1)

\* json.checkValid
RECURSIVE ValidJSON(_)
ValidJSON(j) ==
  CASE j.k = "malformed" -> FALSE
    [] j.k = "num" -> IsJSONNumber(j.v)
    [] j.k = "arr" -> \A i \in 1..Len(j.v) : ValidJSON(j.v[i])
    [] j.k = "obj" -> \A m \in DOMAIN j.v : ValidJSON(j.v[m])
    [] OTHER -> TRUE

\* A value of type interface{} is [t, v]: its dynamic type and, for a
\* string or a float64, its value
Iface(t, v) == [t |-> t, v |-> v]

NilIface == Iface("nil", <<>>)

\* decodeState.convertNumber: a number literal stored into an interface{}
convertNumber(lit) ==
  LET Converted(r) ==
        IF r.err # "" THEN [err |-> "type", x |-> NilIface]
        ELSE [err |-> "", x |-> Iface("float64", r.f)]
  IN  Converted(ParseFloat(lit))

\* decodeState.valueInterface: [err, x], the value decoded into an
\* interface{}; an element that fails leaves the error of the whole decode
RECURSIVE valueInterface(_)
valueInterface(j) ==
  CASE j.k = "null" -> [err |-> "", x |-> NilIface]
    [] j.k = "bool" -> [err |-> "", x |-> Iface("bool", <<>>)]
    [] j.k = "str"  -> [err |-> "", x |-> Iface("string", j.v)]
    [] j.k = "num"  -> convertNumber(j.v)
    [] j.k = "arr"  ->
         [err |-> IF \E i \in 1..Len(j.v) : valueInterface(j.v[i]).err # ""
                  THEN "type" ELSE "",
          x |-> Iface("slice", <<>>)]
    [] j.k = "obj"  ->
         [err |-> IF \E m \in DOMAIN j.v :
                       j.v[m].k # "absent" /\ valueInterface(j.v[m]).err # ""
                  THEN "type" ELSE "",
          x |-> Iface("map", <<>>)]

\* The zero value of a field's type
ZeroOf(typ) ==
  CASE typ = "string" -> <<>>
    [] typ = "float64" -> ZeroF64
    [] typ = "int" -> ZeroInt
    [] typ = "bool" -> FALSE
    [] typ = "any" -> NilIface

\* decodeState.literalStore and decodeState.value for one struct field of
\* type typ holding old: [err, x].  JSON null leaves the field alone; a
\* value of another type than the field's is an UnmarshalTypeError.
storeField(typ, old, j) ==
  LET Number(r, x) ==
        IF r.err # "" THEN [err |-> "type", x |-> old] ELSE [err |-> "", x |-> x]
      Float(r) == Number(r, r.f)
      Integer(r) == Number(r, r.n)
  IN  CASE j.k = "null" -> [err |-> "", x |-> IF typ = "any" THEN NilIface ELSE old]
        [] typ = "any" -> valueInterface(j)
        [] typ = "string" /\ j.k = "str" -> [err |-> "", x |-> j.v]
        [] typ = "float64" /\ j.k = "num" -> Float(ParseFloat(j.v))
        [] typ = "int" /\ j.k = "num" -> Integer(ParseInt(j.v))
        [] OTHER -> [err |-> "type", x |-> old]

-----------------------------------------------------------------------------
(* Struct types and their JSON fields *)

\* A struct field as encoding/json sees it: the path of Go field names
\* from the struct (two names for a field of an embedded struct), the
\* key of its json tag, its type, and whether the tag says omitempty
Fld(path, key, typ, omitempty) ==
  [path |-> path, key |-> key, typ |-> typ, omitempty |-> omitempty]

Embed(name, fields) ==
  [i \in 1..Len(fields) |-> [fields[i] EXCEPT !.path = <<name>> \o @]]

\* type PaymentAmount
PaymentAmountFields ==
  << Fld(<<"PriceAmount">>,      "price_amount",      "float64", FALSE),
     Fld(<<"PriceCurrency">>,    "price_currency",    "string",  FALSE),
     Fld(<<"PayCurrency">>,      "pay_currency",      "string",  TRUE),
     Fld(<<"CallbackURL">>,      "ipn_callback_url",  "string",  TRUE),
     Fld(<<"OrderID">>,          "order_id",          "string",  TRUE),
     Fld(<<"OrderDescription">>, "order_description", "string",  TRUE) >>

\* A mutation of PaymentArgsFields: the tags of PayAmount and PurchaseID
\* lack omitempty
PaymentArgsFields_TagsWithoutOmitEmpty ==
  Embed("PaymentAmount", PaymentAmountFields) \o
  << Fld(<<"FeePaidByUser">>,  "is_fee_paid_by_user", "bool",    TRUE),
     Fld(<<"FixedRate">>,      "fixed_rate",          "bool",    TRUE),
     Fld(<<"PayoutAddress">>,  "payout_address",      "string",  TRUE),
     Fld(<<"PayAmount">>,      "pay_amount",          "float64", FALSE),
     Fld(<<"PayoutCurrency">>, "payout_currency",     "string",  TRUE),
     Fld(<<"PayoutExtraID">>,  "payout_extra_id",     "string",  TRUE),
     Fld(<<"PurchaseID">>,     "purchase_id",         "string",  FALSE),
     Fld(<<"Case">>,           "case",                "string",  TRUE) >>

\* type PaymentArgs
PaymentArgsFields ==
  Embed("PaymentAmount", PaymentAmountFields) \o
  << Fld(<<"FeePaidByUser">>,  "is_fee_paid_by_user", "bool",    TRUE),
     Fld(<<"FixedRate">>,      "fixed_rate",          "bool",    TRUE),
     Fld(<<"PayoutAddress">>,  "payout_address",      "string",  TRUE),
     Fld(<<"PayAmount">>,      "pay_amount",          "float64", TRUE),
     Fld(<<"PayoutCurrency">>, "payout_currency",     "string",  TRUE),
     Fld(<<"PayoutExtraID">>,  "payout_extra_id",     "string",  TRUE),
     Fld(<<"PurchaseID">>,     "purchase_id",         "string",  TRUE),
     Fld(<<"Case">>,           "case",                "string",  TRUE) >>

\* type InvoicePaymentArgs
InvoicePaymentArgsFields ==
  << Fld(<<"InvoiceID">>,        "iid",               "string", FALSE),
     Fld(<<"PayCurrency">>,      "pay_currency",      "string", FALSE),
     Fld(<<"PurchaseID">>,       "purchase_id",       "string", TRUE),
     Fld(<<"OrderDescription">>, "order_description", "string", TRUE),
     Fld(<<"CustomerEmail">>,    "customer_email",    "string", TRUE),
     Fld(<<"PayoutCurrency">>,   "payout_currency",   "string", TRUE),
     Fld(<<"PayoutExtraID">>,    "payout_extra_id",   "string", TRUE),
     Fld(<<"PayoutAddress">>,    "payout_address",    "string", TRUE) >>

\* type sp, the intermediate struct of Payment.UnmarshalJSON
SpFields ==
  Embed("PaymentAmount", PaymentAmountFields) \o
  << Fld(<<"ID">>,                     "payment_id",               "any",     FALSE),
     Fld(<<"AmountReceived">>,         "amount_received",          "float64", FALSE),
     Fld(<<"BurningPercent">>,         "burning_percent",          "int",     FALSE),
     Fld(<<"CreatedAt">>,              "created_at",               "string",  FALSE),
     Fld(<<"ExpirationEstimateDate">>, "expiration_estimate_date", "string",  FALSE),
     Fld(<<"Network">>,                "network",                  "string",  FALSE),
     Fld(<<"NetworkPrecision">>,       "network_precision",        "int",     FALSE),
     Fld(<<"PayAddress">>,             "pay_address",              "string",  FALSE),
     Fld(<<"PayAmount">>,              "pay_amount",               "any",     FALSE),
     Fld(<<"PayCurrency">>,            "pay_currency",             "string",  FALSE),
     Fld(<<"PayinExtraID">>,           "payin_extra_id",           "string",  FALSE),
     Fld(<<"PurchaseID">>,             "purchase_id",              "string",  FALSE),
     Fld(<<"SmartContract">>,          "smart_contract",           "string",  FALSE),
     Fld(<<"Status">>,                 "payment_status",           "string",  FALSE),
     Fld(<<"TimeLimit">>,              "time_limit",               "string",  FALSE),
     Fld(<<"UpdatedAt">>,              "updated_at",               "string",  FALSE) >>

ZeroPaymentAmount ==
  [PriceAmount |-> ZeroF64, PriceCurrency |-> <<>>, PayCurrency |-> <<>>,
   CallbackURL |-> <<>>, OrderID |-> <<>>, OrderDescription |-> <<>>]

\* sp{}
ZeroSp ==
  [PaymentAmount |-> ZeroPaymentAmount, ID |-> NilIface, AmountReceived |-> ZeroF64,
   BurningPercent |-> ZeroInt, CreatedAt |-> <<>>, ExpirationEstimateDate |-> <<>>,
   Network |-> <<>>, NetworkPrecision |-> ZeroInt, PayAddress |-> <<>>,
   PayAmount |-> NilIface, PayCurrency |-> <<>>, PayinExtraID |-> <<>>,
   PurchaseID |-> <<>>, SmartContract |-> <<>>, Status |-> <<>>,
   TimeLimit |-> <<>>, UpdatedAt |-> <<>>]

\* Payment{}
ZeroPayment ==
  [PaymentAmount |-> ZeroPaymentAmount, ID |-> <<>>, AmountReceived |-> ZeroF64,
   BurningPercent |-> ZeroInt, CreatedAt |-> <<>>, ExpirationEstimateDate |-> <<>>,
   Network |-> <<>>, NetworkPrecision |-> ZeroInt, PayAddress |-> <<>>,
   PayAmount |-> ZeroF64, PayCurrency |-> <<>>, PayinExtraID |-> <<>>,
   PurchaseID |-> <<>>, SmartContract |-> <<>>, Status |-> <<>>,
   TimeLimit |-> <<>>, UpdatedAt |-> <<>>]

GetField(st, path) ==
  IF Len(path) = 1 THEN st[path[1]] ELSE st[path[1]][path[2]]

SetField(st, path, x) ==
  IF Len(path) = 1 THEN [st EXCEPT ![path[1]] = x]
  ELSE [st EXCEPT ![path[1]][path[2]] = x]

\* encoding/json's typeFields: among the fields that share a key the one
\* at the least depth is the field of that key, and the others are hidden;
\* several at the least depth hide each other
IsDominant(fields, i) ==
  \A g \in 1..Len(fields) :
     (g # i /\ fields[g].key = fields[i].key)
        => Len(fields[g].path) > Len(fields[i].path)

Member(obj, key) == IF key \in DOMAIN obj.v THEN obj.v[key] ELSE JAbsent

\* decodeState.object into a struct holding j0: [err, j]; a type error is
\* kept and the decoding goes on, each member stored into the field of
\* its key
decodeFields(fields, obj, j0) ==
  LET \* what each field holds afterwards: [err, x]
      Store(i) ==
        IF Member(obj, fields[i].key).k = "absent" \/ ~IsDominant(fields, i)
        THEN [err |-> "", x |-> GetField(j0, fields[i].path)]
        ELSE storeField(fields[i].typ, GetField(j0, fields[i].path),
                        Member(obj, fields[i].key))
      Decoded(stored) ==
        [err |-> IF \E i \in 1..Len(fields) : stored[i].err # "" THEN "type" ELSE "",
         j   |-> [n \in DOMAIN j0 |->
                    IF \E i \in 1..Len(fields) : fields[i].path = <<n>>
                    THEN stored[CHOOSE i \in 1..Len(fields) : fields[i].path = <<n>>].x
                    ELSE [m \in DOMAIN j0[n] |->
                            stored[CHOOSE i \in 1..Len(fields) :
                                     fields[i].path = <<n, m>>].x]]]
  IN  Decoded([i \in 1..Len(fields) |-> Store(i)])

\* json.Unmarshal(raw, &j) for a struct j with the given fields: [err, j];
\* err is "", "syntax" or "type"
jsonUnmarshal(raw, fields, j) ==
  IF ~ValidJSON(raw) THEN [err |-> "syntax", j |-> j]
  ELSE IF raw.k = "null" THEN [err |-> "", j |-> j]
  ELSE IF raw.k = "obj" THEN decodeFields(fields, raw, j)
  ELSE [err |-> "type", j |-> j]

-----------------------------------------------------------------------------
(* Payment.UnmarshalJSON *)

\* A mutation of PayAmountOf: a string is no case of the switch
PayAmountOf_StringsIgnored(x) ==
  CASE x.t = "float64" -> [err |-> "", f |-> x.v]
    [] OTHER           -> [err |-> "", f |-> ZeroF64]

\* A mutation of PayAmountOf: the error of strconv.ParseFloat is dropped
PayAmountOf_ErrorsIgnored(x) ==
  CASE x.t = "string"  -> [err |-> "", f |-> ParseFloat(x.v).f]
    [] x.t = "float64" -> [err |-> "", f |-> x.v]
    [] OTHER           -> [err |-> "", f |-> ZeroF64]

\* switch j.PayAmount.(type): [err, f]
PayAmountOf(x) ==
  CASE x.t = "string"  -> ParseFloat(x.v)
    [] x.t = "float64" -> [err |-> "", f |-> x.v]
    [] OTHER           -> [err |-> "", f |-> ZeroF64]

\* switch j.ID.(type); o is what int() gives outside its range
IDOf(x, o) ==
  CASE x.t = "string"  -> x.v
    [] x.t = "float64" -> FormatInt(F64ToInt(x.v, o))
    [] OTHER           -> <<>>

\* z := Payment{...}: the fields copied from j, ID and PayAmount still zero
CopyOf(j) ==
  [PaymentAmount          |-> j.PaymentAmount,
   ID                     |-> <<>>,
   AmountReceived         |-> j.AmountReceived,
   BurningPercent         |-> j.BurningPercent,
   CreatedAt              |-> j.CreatedAt,
   ExpirationEstimateDate |-> j.ExpirationEstimateDate,
   Network                |-> j.Network,
   NetworkPrecision       |-> j.NetworkPrecision,
   PayAddress             |-> j.PayAddress,
   PayAmount              |-> ZeroF64,
   PayCurrency            |-> j.PayCurrency,
   PayinExtraID           |-> j.PayinExtraID,
   PurchaseID             |-> j.PurchaseID,
   SmartContract          |-> j.SmartContract,
   Status                 |-> j.Status,
   TimeLimit              |-> j.TimeLimit,
   UpdatedAt              |-> j.UpdatedAt]

\* A mutation of UnmarshalJSON: the receiver is written before pay_amount is parsed
UnmarshalJSON_EarlyWrite(recv, raw, o) ==
  LET Normalized(j, z, amt) ==
        IF amt.err # ""
        THEN [err |-> Wrap(Err(amt.err), "parsing pay_amount as a float"), p |-> z]
        ELSE [err |-> NoError, p |-> [z EXCEPT !.PayAmount = amt.f, !.ID = IDOf(j.ID, o)]]
      Decoded(d) ==
        IF d.err # ""
        THEN [err |-> Wrap(Err(d.err), "payment custom unmarshal"), p |-> recv]
        ELSE Normalized(d.j, CopyOf(d.j), PayAmountOf(d.j.PayAmount))
  IN  Decoded(jsonUnmarshal(raw, SpFields, ZeroSp))

\* func (p *Payment) UnmarshalJSON(b []byte) error: [err, p], the error
\* returned and the receiver afterwards
UnmarshalJSON(recv, raw, o) ==
  LET \* the two switches on z, then *p = z
      Normalized(j, z, amt) ==
        IF amt.err # ""
        THEN [err |-> Wrap(Err(amt.err), "parsing pay_amount as a float"), p |-> recv]
        ELSE [err |-> NoError, p |-> [z EXCEPT !.PayAmount = amt.f, !.ID = IDOf(j.ID, o)]]
      \* j := sp{}; err := json.Unmarshal(b, &j)
      Decoded(d) ==
        IF d.err # ""
        THEN [err |-> Wrap(Err(d.err), "payment custom unmarshal"), p |-> recv]
        ELSE Normalized(d.j, CopyOf(d.j), PayAmountOf(d.j.PayAmount))
  IN  Decoded(jsonUnmarshal(raw, SpFields, ZeroSp))

-----------------------------------------------------------------------------
(* json.Marshal of the request structs *)

\* encoding/json's isEmptyValue
isEmptyValue(typ, x) ==
  CASE typ = "string"  -> x = <<>>
    [] typ = "bool"    -> x = FALSE
    [] typ = "float64" -> IsZeroF64(x)
    [] OTHER           -> FALSE

\* The literal of a finite float64 in the 'f' format, which encoding/json
\* uses for magnitudes from 1e-6 up to 1e21
FormatFloat(f) ==
  (IF f.neg THEN <<"-">> ELSE <<>>) \o
  (IF f.ip = <<>> THEN <<"0">> ELSE [i \in 1..Len(f.ip) |-> DigitChars[f.ip[i] + 1]]) \o
  (IF f.fp = <<>> THEN <<>>
   ELSE <<".">> \o [i \in 1..Len(f.fp) |-> DigitChars[f.fp[i] + 1]])

\* The encoder of one field value: [err, val]; a NaN or an infinity is an
\* UnsupportedValueError
encodeValue(typ, x) ==
  CASE typ = "string" -> [err |-> "", val |-> JStr(x)]
    [] typ = "bool"   -> [err |-> "", val |-> JBool(x)]
    [] typ = "float64" ->
         IF x.cls # "fin" THEN [err |-> "unsupported value", val |-> JNull]
         ELSE [err |-> "", val |-> JNum(FormatFloat(x))]

\* structEncoder.encode: [err, d], d the members written, in the order of
\* the fields, each [key, val]
encodeFields(fields, v) ==
  LET Written(i) ==
        /\ IsDominant(fields, i)
        /\ ~(fields[i].omitempty /\ isEmptyValue(fields[i].typ, GetField(v, fields[i].path)))
      Encoded(written, vals) ==
        IF \E n \in 1..Len(written) : vals[written[n]].err # ""
        THEN [err |-> "unsupported value", d |-> <<>>]
        ELSE [err |-> "",
              d   |-> [n \in 1..Len(written) |->
                         [key |-> fields[written[n]].key, val |-> vals[written[n]].val]]]
  IN  Encoded(SelectSeq([i \in 1..Len(fields) |-> i], Written),
              [i \in 1..Len(fields) |-> encodeValue(fields[i].typ, GetField(v, fields[i].path))])

\* json.Marshal(v) for a pointer to a struct with the given fields
Marshal(v, fields) == encodeFields(fields, v)

-----------------------------------------------------------------------------
(* The operations *)

\* A *Payment: nil, or pointing to the Payment v
Ptr(v) == [nil |-> FALSE, v |-> v]

NilPayment == [nil |-> TRUE, v |-> ZeroPayment]

ZeroPaymentArgs ==
  [PaymentAmount |-> ZeroPaymentAmount, FeePaidByUser |-> FALSE, FixedRate |-> FALSE,
   PayoutAddress |-> <<>>, PayAmount |-> ZeroF64, PayoutCurrency |-> <<>>,
   PayoutExtraID |-> <<>>, PurchaseID |-> <<>>, Case |-> <<>>]

ZeroInvoicePaymentArgs ==
  [InvoiceID |-> <<>>, PayCurrency |-> <<>>, PurchaseID |-> <<>>,
   OrderDescription |-> <<>>, CustomerEmail |-> <<>>, PayoutCurrency |-> <<>>,
   PayoutExtraID |-> <<>>, PayoutAddress |-> <<>>]

\* What the network exchange of one dispatcher call produces: a transport
\* or HTTP failure with its error, or a response body
Failure(e) == [kind |-> "error", err |-> e, body |-> JNull]

Reply(body) == [kind |-> "body", err |-> NoError, body |-> body]

\* core.HTTPSend(par) with the exchange giving rsp: [err, into], the error
\* returned and the *Payment variable par.Into points to afterwards.  The
\* body is decoded into that variable as encoding/json decodes into a
\* pointer: null sets it to nil, any other value goes to UnmarshalJSON of
\* the Payment it points to.
HTTPSend(par, rsp, o) ==
  LET Decoded(r) ==
        [err  |-> IF r.err = NoError THEN NoError ELSE Wrap(r.err, par.RouteName),
         into |-> Ptr(r.p)]
  IN  IF rsp.kind = "error" THEN [err |-> rsp.err, into |-> par.Into]
      ELSE IF ~ValidJSON(rsp.body)
      THEN [err |-> Wrap(Err("syntax"), par.RouteName), into |-> par.Into]
      ELSE IF rsp.body.k = "null" THEN [err |-> NoError, into |-> NilPayment]
      ELSE Decoded(UnmarshalJSON(par.Into.v, rsp.body, o))

\* One entry of the log of dispatcher calls
Call(par, err) == [RouteName |-> par.RouteName, Body |-> par.Body, err |-> err]

\* A mutation of New: no nil check, the nil pointer is marshalled as null
New_NoNilCheck(a, rsp, o) ==
  LET Sent(par, s) ==
        IF s.err # NoError
        THEN [p |-> NilPayment, err |-> s.err, calls |-> <<Call(par, s.err)>>]
        ELSE [p |-> s.into, err |-> NoError, calls |-> <<Call(par, s.err)>>]
      Send(par) == Sent(par, HTTPSend(par, rsp, o))
      Marshalled(m) ==
        IF m.err # ""
        THEN [p |-> NilPayment, err |-> Wrap(Err(m.err), "payment args"), calls |-> <<>>]
        ELSE Send([RouteName |-> "payment-create", Into |-> Ptr(ZeroPayment), Body |-> m.d])
  IN  Marshalled(IF a.nil THEN [err |-> "", d |-> <<>>] ELSE Marshal(a.v, PaymentArgsFields))

\* A mutation of New: a failed dispatcher call is made once more
New_Retry(a, rsp, o) ==
  LET Sent(par, s) ==
        IF s.err # NoError
        THEN [p |-> NilPayment, err |-> s.err,
              calls |-> <<Call(par, s.err), Call(par, s.err)>>]
        ELSE [p |-> s.into, err |-> NoError, calls |-> <<Call(par, s.err)>>]
      Send(par) == Sent(par, HTTPSend(par, rsp, o))
      Marshalled(m) ==
        IF m.err # ""
        THEN [p |-> NilPayment, err |-> Wrap(Err(m.err), "payment args"), calls |-> <<>>]
        ELSE Send([RouteName |-> "payment-create", Into |-> Ptr(ZeroPayment), Body |-> m.d])
  IN  IF a.nil
      THEN [p |-> NilPayment, err |-> Err("nil payment args"), calls |-> <<>>]
      ELSE Marshalled(Marshal(a.v, PaymentArgsFields))

\* func New(pa *PaymentArgs) (*Payment, error): [p, err, calls], the two
\* results and the dispatcher calls made
New(a, rsp, o) ==
  LET \* err = core.HTTPSend(par), then the two returns
      Sent(par, s) ==
        IF s.err # NoError
        THEN [p |-> NilPayment, err |-> s.err, calls |-> <<Call(par, s.err)>>]
        ELSE [p |-> s.into, err |-> NoError, calls |-> <<Call(par, s.err)>>]
      \* p := &Payment{}; par.Into = &p
      Send(par) == Sent(par, HTTPSend(par, rsp, o))
      \* d, err := json.Marshal(pa)
      Marshalled(m) ==
        IF m.err # ""
        THEN [p |-> NilPayment, err |-> Wrap(Err(m.err), "payment args"), calls |-> <<>>]
        ELSE Send([RouteName |-> "payment-create", Into |-> Ptr(ZeroPayment), Body |-> m.d])
  IN  IF a.nil
      THEN [p |-> NilPayment, err |-> Err("nil payment args"), calls |-> <<>>]
      ELSE Marshalled(Marshal(a.v, PaymentArgsFields))

\* func NewFromInvoice(ipa *InvoicePaymentArgs) (*Payment, error)
NewFromInvoice(a, rsp, o) ==
  LET Sent(par, s) ==
        IF s.err # NoError
        THEN [p |-> NilPayment, err |-> s.err, calls |-> <<Call(par, s.err)>>]
        ELSE [p |-> s.into, err |-> NoError, calls |-> <<Call(par, s.err)>>]
      Send(par) == Sent(par, HTTPSend(par, rsp, o))
      Marshalled(m) ==
        IF m.err # ""
        THEN [p |-> NilPayment, err |-> Wrap(Err(m.err), "payment from invoice args"),
              calls |-> <<>>]
        ELSE Send([RouteName |-> "invoice-payment", Into |-> Ptr(ZeroPayment), Body |-> m.d])
  IN  IF a.nil
      THEN [p |-> NilPayment, err |-> Err("nil invoice payment args"), calls |-> <<>>]
      ELSE Marshalled(Marshal(a.v, InvoicePaymentArgsFields))

-----------------------------------------------------------------------------
(* Inputs *)

\* The most optional fields a request of the inputs sets at once
MaxOptionalSet == 2

\* The most members by which a response body of the inputs differs from
\* BaseBody
MaxVaried == 2

Ten == F64(FALSE, <<1, 0>>, <<>>)

Usd == <<"u", "s", "d">>

Btc == <<"b", "t", "c">>

\* The optional fields of PaymentArgs, each with a set (non-zero) value
OptionalSettings ==
  << [path |-> <<"PaymentAmount", "PayCurrency">>,      x |-> Btc],
     [path |-> <<"PaymentAmount", "CallbackURL">>,      x |-> <<"u">>],
     [path |-> <<"PaymentAmount", "OrderID">>,          x |-> <<"o", "1">>],
     [path |-> <<"PaymentAmount", "OrderDescription">>, x |-> <<"d">>],
     [path |-> <<"FeePaidByUser">>,                     x |-> TRUE],
     [path |-> <<"FixedRate">>,                         x |-> TRUE],
     [path |-> <<"PayoutAddress">>,                     x |-> <<"a">>],
     [path |-> <<"PayAmount">>,                         x |-> F64(FALSE, <<5>>, <<5>>)],
     [path |-> <<"PayoutCurrency">>,                    x |-> <<"e", "t", "h">>],
     [path |-> <<"PayoutExtraID">>,                     x |-> <<"x">>],
     [path |-> <<"PurchaseID">>,                        x |-> <<"7">>],
     [path |-> <<"Case">>,                              x |-> <<"c">>] >>

RECURSIVE ApplySettings(_, _, _, _)
ApplySettings(v, settings, S, i) ==
  IF i > Len(settings) THEN v
  ELSE ApplySettings(IF i \in S THEN SetField(v, settings[i].path, settings[i].x) ELSE v,
                     settings, S, i + 1)

\* price_amount and price_currency of the requests: set, zero, and an
\* amount json.Marshal cannot encode
RequiredSettings ==
  { [amount |-> Ten, currency |-> Usd],
    [amount |-> ZeroF64, currency |-> <<>>],
    [amount |-> NaNF64, currency |-> Usd] }

PaymentArgsValues ==
  { ApplySettings(
      [ZeroPaymentArgs EXCEPT !.PaymentAmount.PriceAmount = r.amount,
                              !.PaymentAmount.PriceCurrency = r.currency],
      OptionalSettings, S, 1) :
    r \in RequiredSettings,
    S \in {T \in SUBSET (1..Len(OptionalSettings)) : Cardinality(T) <= MaxOptionalSet} }

NilPaymentArgs == [nil |-> TRUE, v |-> ZeroPaymentArgs]

\* The arguments of New
PaymentArgsInputs == {NilPaymentArgs} \cup {[nil |-> FALSE, v |-> v] : v \in PaymentArgsValues}

InvoiceOptionalSettings ==
  << [path |-> <<"PurchaseID">>,       x |-> <<"7">>],
     [path |-> <<"OrderDescription">>, x |-> <<"d">>],
     [path |-> <<"CustomerEmail">>,    x |-> <<"m">>],
     [path |-> <<"PayoutCurrency">>,   x |-> <<"e", "t", "h">>],
     [path |-> <<"PayoutExtraID">>,    x |-> <<"x">>],
     [path |-> <<"PayoutAddress">>,    x |-> <<"a">>] >>

InvoicePaymentArgsValues ==
  { ApplySettings(
      [ZeroInvoicePaymentArgs EXCEPT !.InvoiceID = r[1], !.PayCurrency = r[2]],
      InvoiceOptionalSettings, S, 1) :
    r \in {<<<<"4", "2">>, Btc>>, <<<<>>, <<>>>>},
    S \in {T \in SUBSET (1..Len(InvoiceOptionalSettings)) : Cardinality(T) <= MaxOptionalSet} }

NilInvoicePaymentArgs == [nil |-> TRUE, v |-> ZeroInvoicePaymentArgs]

\* The arguments of NewFromInvoice
InvoicePaymentArgsInputs ==
  {NilInvoicePaymentArgs} \cup {[nil |-> FALSE, v |-> v] : v \in InvoicePaymentArgsValues}


\* A response of the "create payment" route
BaseBody ==
  JObj([price_amount             |-> JNum(<<"3", "9", "9", "9", ".", "5">>),
      price_currency           |-> JStr(<<"u", "s", "d">>),
      pay_currency             |-> JStr(<<"b", "t", "c">>),
      ipn_callback_url         |-> JStr(<<"u">>),
      order_id                 |-> JStr(<<"o", "1">>),
      order_description        |-> JStr(<<"d">>),
      payment_id               |-> JStr(<<"1", "2", "3", "4", "5">>),
      amount_received          |-> JNum(<<"0", ".", "1", "7">>),
      burning_percent          |-> JNum(<<"5">>),
      created_at               |-> JStr(<<"t", "1">>),
      expiration_estimate_date |-> JStr(<<"t", "3">>),
      network                  |-> JStr(<<"b", "t", "c">>),
      network_precision        |-> JNum(<<"8">>),
      pay_address              |-> JStr(<<"3", "E", "Z">>),
      pay_amount               |-> JStr(<<"0", ".", "0", "0", "1", "2", "3">>),
      payin_extra_id           |-> JNull,
      purchase_id              |-> JStr(<<"7">>),
      smart_contract           |-> JStr(<<>>),
      payment_status           |-> JStr(<<"w">>),
      time_limit               |-> JNull,
      updated_at               |-> JStr(<<"t", "2">>),
      type                     |-> JStr(<<"c", "2", "c">>)])

\* The members the bodies of the inputs vary, and the values each takes
\* besides BaseBody's
VariedKeys ==
  <<"payment_id", "pay_amount", "pay_currency", "burning_percent", "price_amount", "order_id">>

Alternatives(key) ==
  CASE key = "payment_id" ->
    { JNum(<<"1", "2", "3", "4", "5">>),
      JNum(<<"0">>),
      JNum(<<"-", "7">>),
      JNum(<<"1", "2", "3", "4", "5", ".", "9">>),
      JNum(<<"-", "1", ".", "5">>),
      JNum(<<"1", "e", "3">>),
      JNum(<<"9", "0", "0", "7", "1", "9", "9", "2", "5", "4", "7", "4", "0", "9", "9", "3">>),
      JNum(<<"1", "2", "3", "4", "5", "6", "7", "8", "9", "0", "1", "2", "3", "4", "5", "6", "7", "8", "9", "0">>),
      JNum(<<"1", "e", "4", "0", "0">>),
      JNum(<<".", "5">>),
      JStr(<<>>),
      JStr(<<"a", "b", "c">>),
      JStr(<<"9", "0", "0", "7", "1", "9", "9", "2", "5", "4", "7", "4", "0", "9", "9", "3">>),
      JAbsent,
      JNull,
      JBool(TRUE),
      JArr(<<JNum(<<"1">>)>>),
      JArr(<<JNum(<<"1", "e", "4", "0", "0">>)>>),
      JObj([a |-> JStr(<<"x">>)]) }
  [] key = "pay_amount" ->
    { JNum(<<"0", ".", "0", "0", "1", "2", "3">>),
      JNum(<<"5">>),
      JStr(<<"5">>),
      JNum(<<"1", ".", "5", "0">>),
      JStr(<<"1", ".", "5", "0">>),
      JNum(<<"-", "2", ".", "5", "e", "1">>),
      JNum(<<"1", "e", "4", "0", "0">>),
      JStr(<<"1", "e", "4", "0", "0">>),
      JStr(<<"n", "o", "t", "-", "a", "-", "n", "u", "m", "b", "e", "r">>),
      JStr(<<>>),
      JStr(<<".", "5">>),
      JStr(<<"+", "1">>),
      JStr(<<"I", "n", "f">>),
      JStr(<<"N", "a", "N">>),
      JStr(<<"1", "e">>),
      JAbsent,
      JNull,
      JBool(FALSE),
      JArr(<<>>),
      JObj([a |-> JNum(<<"1", "e", "4", "0", "0">>)]) }
  [] key = "pay_currency" ->
    { JAbsent,
      JNull,
      JStr(<<"e", "t", "h">>),
      JNum(<<"1">>) }
  [] key = "burning_percent" ->
    { JAbsent,
      JNum(<<"1", ".", "5">>),
      JStr(<<"5">>),
      JNum(<<"1", "2", "3", "4", "5", "6", "7", "8", "9", "0", "1", "2", "3", "4", "5", "6", "7", "8", "9", "0">>) }
  [] key = "price_amount" ->
    { JAbsent,
      JStr(<<"1", "0">>),
      JNum(<<"1", "e", "4", "0", "0">>) }
  [] key = "order_id" ->
    { JBool(TRUE) }

\* The bodies that differ from doc in at most budget of VariedKeys[i..]
RECURSIVE VaryFrom(_, _, _)
VaryFrom(doc, i, budget) ==
  IF i > Len(VariedKeys) \/ budget = 0 THEN {doc}
  ELSE VaryFrom(doc, i + 1, budget) \cup
       UNION { VaryFrom(JObj([doc.v EXCEPT ![VariedKeys[i]] = alt]), i + 1, budget - 1) :
               alt \in Alternatives(VariedKeys[i]) }

\* Bodies that are no object with members
OtherBodies ==
  { Malformed, JNull, JObj(<<>>), JArr(<<>>), JNum(<<"1">>), JStr(<<"o", "k">>), JBool(TRUE) }

\* The raw bytes given to UnmarshalJSON
Bodies == VaryFrom(BaseBody, 1, MaxVaried) \cup OtherBodies

\* The response bodies of the dispatcher calls
ResponseBodies == VaryFrom(BaseBody, 1, MaxVaried - 1) \cup OtherBodies

TransportErrors == { Err("dial tcp: i/o timeout"), Err("403 Forbidden") }

\* What an exchange with the remote service can produce
Responses ==
  {Failure(e) : e \in TransportErrors} \cup {Reply(body) : body \in ResponseBodies}

FewResponses ==
  {Failure(e) : e \in TransportErrors} \cup
  {Reply(body) : body \in {BaseBody, JNull, Malformed, JObj(<<>>)}}

FewPaymentArgs ==
  { NilPaymentArgs,
    [nil |-> FALSE,
     v   |-> [ZeroPaymentArgs EXCEPT !.PaymentAmount.PriceAmount = Ten,
                                     !.PaymentAmount.PriceCurrency = Usd]] }

FewInvoicePaymentArgs ==
  { NilInvoicePaymentArgs,
    [nil |-> FALSE,
     v   |-> [ZeroInvoicePaymentArgs EXCEPT !.InvoiceID = <<"4", "2">>,
                                            !.PayCurrency = Btc]] }

\* The receivers of UnmarshalJSON: a fresh Payment, and one that an
\* earlier decoding populated
Receivers == { ZeroPayment, UnmarshalJSON(ZeroPayment, BaseBody, "min").p }

-----------------------------------------------------------------------------
(* The state machine: one invocation of one operation *)

Init ==
  /\ pc = "idle"
  /\ op = "none"
  /\ pa = NilPaymentArgs
  /\ ipa = NilInvoicePaymentArgs
  /\ resp = Failure(NoError)
  /\ b = JNull
  /\ ov = "min"
  /\ p \in Receivers
  /\ calls = <<>>
  /\ ret = [p |-> NilPayment, err |-> NoError]

\* payments.New(a), the exchange of its dispatcher call giving rsp
CallNew ==
  /\ pc = "idle"
  /\ \E in \in (PaymentArgsInputs \X FewResponses) \cup (FewPaymentArgs \X Responses),
        o \in IntOverflowOutcomes :
       \E r \in {New(in[1], in[2], o)} :
           /\ pc' = "done"
           /\ op' = "New"
           /\ pa' = in[1]
           /\ resp' = in[2]
           /\ ov' = o
           /\ calls' = r.calls
           /\ ret' = [p |-> r.p, err |-> r.err]
           /\ UNCHANGED <<ipa, b, p>>

\* payments.NewFromInvoice(a)
CallNewFromInvoice ==
  /\ pc = "idle"
  /\ \E in \in (InvoicePaymentArgsInputs \X FewResponses) \cup
               (FewInvoicePaymentArgs \X Responses),
        o \in IntOverflowOutcomes :
       \E r \in {NewFromInvoice(in[1], in[2], o)} :
           /\ pc' = "done"
           /\ op' = "NewFromInvoice"
           /\ ipa' = in[1]
           /\ resp' = in[2]
           /\ ov' = o
           /\ calls' = r.calls
           /\ ret' = [p |-> r.p, err |-> r.err]
           /\ UNCHANGED <<pa, b, p>>

\* p.UnmarshalJSON(raw) on the receiver p
CallUnmarshalJSON ==
  /\ pc = "idle"
  /\ \E raw \in Bodies, o \in IntOverflowOutcomes :
       \E r \in {UnmarshalJSON(p, raw, o)} :
           /\ pc' = "done"
           /\ op' = "UnmarshalJSON"
           /\ b' = raw
           /\ ov' = o
           /\ p' = r.p
           /\ ret' = [p |-> NilPayment, err |-> r.err]
           /\ UNCHANGED <<pa, ipa, resp, calls>>

Next == CallNew \/ CallNewFromInvoice \/ CallUnmarshalJSON

Spec == Init /\ [][Next]_vars

-----------------------------------------------------------------------------
(* Properties *)

\* The invocation is over and was of New or of NewFromInvoice
Created == pc = "done" /\ op \in {"New", "NewFromInvoice"}

\* The invocation is over and was of Payment.UnmarshalJSON
DecodeDone == pc = "done" /\ op = "UnmarshalJSON"

\* The request the invocation was given
Request == IF op = "New" THEN pa ELSE ipa

\* json.Marshal accepts the request
Serializes ==
  IF op = "New" THEN Marshal(pa.v, PaymentArgsFields).err = ""
  ELSE Marshal(ipa.v, InvoicePaymentArgsFields).err = ""

\* C1: with a nil request New and NewFromInvoice return an error and a nil
\* Payment, and the dispatcher is not called
C1_NilRequestRejected ==
  (Created /\ Request.nil) => ret.err # NoError /\ ret.p.nil /\ calls = <<>>

C1_Witness == pc = "done" /\ op = "New" /\ pa.nil /\ ret.err = Err("nil payment args")

\* C2: every invocation of New or NewFromInvoice ends with a non-nil Payment
\* and a nil error, or with a nil Payment and a non-nil error
C2_PaymentOrError ==
  Created => \/ ~ret.p.nil /\ ret.err = NoError
             \/ ret.p.nil /\ ret.err # NoError

\* C3 as stated: a non-nil request makes exactly one dispatcher call
C3_OneCallPerRequest ==
  (Created /\ ~Request.nil) => Len(calls) = 1

\* C3: a non-nil request that json.Marshal accepts makes exactly one
\* dispatcher call, on the route of the operation, and an error of that call
\* is returned as it is, with no Payment; a request json.Marshal rejects
\* makes no call and returns an error
C3_OneCallPerSerializedRequest ==
  (Created /\ ~Request.nil) =>
     IF Serializes
     THEN /\ Len(calls) = 1
          /\ calls[1].RouteName = (IF op = "New" THEN "payment-create" ELSE "invoice-payment")
          /\ calls[1].err # NoError => ret.err = calls[1].err /\ ret.p.nil
     ELSE calls = <<>> /\ ret.err # NoError /\ ret.p.nil

C3_Witness ==
  Created /\ ~Request.nil /\ Len(calls) = 1 /\ calls[1].err = Err("403 Forbidden")
    /\ ret.err = Err("403 Forbidden")

\* A number literal of decimal digits only, with or without a sign
IsIntegralLiteral(lit) ==
  /\ IsJSONNumber(lit)
  /\ \A i \in 1..Len(lit) : IsDigit(lit[i]) \/ (i = 1 /\ lit[i] = "-")

\* C4: a payment_id sent as the JSON number n, n integral, gives the
\* identifier of n's decimal digits, as the JSON string of these digits does
C4_IdentifierOfIntegral ==
  (DecodeDone /\ ret.err = NoError /\ b.k = "obj" /\ Member(b, "payment_id").k = "num"
     /\ IsIntegralLiteral(Member(b, "payment_id").v))
    => p.ID = Member(b, "payment_id").v

\* The body with the member key holding x
WithMember(body, key, x) == JObj([body.v EXCEPT ![key] = x])

\* The decoded response has pay_amount as a JSON number
NumberAmount ==
  DecodeDone /\ b.k = "obj" /\ Member(b, "pay_amount").k = "num"
    /\ IsJSONNumber(Member(b, "pay_amount").v)

\* C5 as stated: whatever the number literal s, the response with pay_amount
\* the number s and the one with pay_amount the string "s" both decode, to
\* the same pay amount (the rest of the response being one that decodes)
C5_BothFormsDecode ==
  LET Same(lit, asString, without) ==
        without.err = NoError =>
          ret.err = NoError /\ asString.err = NoError /\ asString.p.PayAmount = p.PayAmount
  IN  NumberAmount =>
        Same(Member(b, "pay_amount").v,
             UnmarshalJSON(ZeroPayment,
                           WithMember(b, "pay_amount", JStr(Member(b, "pay_amount").v)), ov),
             UnmarshalJSON(ZeroPayment, WithMember(b, "pay_amount", JAbsent), ov))

\* C5: for a number literal s within the range of float64 the response with
\* pay_amount the number s and the one with the string "s" decode to the
\* same entity (and both decode when the rest of the response does); for s
\* outside that range neither decodes
C5_SameAmountWithinRange ==
  LET Same(lit, asString, without) ==
        IF ParseFloat(lit).err = ""
        THEN /\ (ret.err = NoError) <=> (without.err = NoError)
             /\ (asString.err = NoError) <=> (without.err = NoError)
             /\ ret.err = NoError => asString.p = p
        ELSE ret.err # NoError /\ asString.err # NoError
  IN  NumberAmount =>
        Same(Member(b, "pay_amount").v,
             UnmarshalJSON(ZeroPayment,
                           WithMember(b, "pay_amount", JStr(Member(b, "pay_amount").v)), ov),
             UnmarshalJSON(ZeroPayment, WithMember(b, "pay_amount", JAbsent), ov))

C5_Witness ==
  NumberAmount /\ ret.err = NoError /\ p.PayAmount = F64(TRUE, <<2, 5>>, <<>>)

\* The JSON value j suits a field of type typ other than interface{}:
\* absent or null, or of the type's JSON kind and, a number, one the type
\* holds
Suits(typ, j) ==
  \/ j.k \in {"absent", "null"}
  \/ typ = "string" /\ j.k = "str"
  \/ typ = "float64" /\ j.k = "num" /\ ParseFloat(j.v).err = ""
  \/ typ = "int" /\ j.k = "num" /\ ParseInt(j.v).err = ""

\* The bytes are well-formed JSON of the shape of a Payment: null, or an
\* object whose members suit the fields they name
WellShaped(raw) ==
  /\ ValidJSON(raw)
  /\ raw.k \in {"obj", "null"}
  /\ raw.k = "obj" =>
       \A i \in 1..Len(SpFields) :
          (SpFields[i].typ # "any" /\ IsDominant(SpFields, i))
             => Suits(SpFields[i].typ, Member(raw, SpFields[i].key))

\* pay_amount is a JSON string that strconv.ParseFloat rejects
BadAmountString(raw) ==
  /\ raw.k = "obj"
  /\ Member(raw, "pay_amount").k = "str"
  /\ ParseFloat(Member(raw, "pay_amount").v).err # ""

\* The JSON value is, or holds in an array or an object, a number outside
\* the range of float64
RECURSIVE HoldsUnrepresentable(_)
HoldsUnrepresentable(j) ==
  CASE j.k = "num" -> ParseFloat(j.v).err # ""
    [] j.k = "arr" -> \E i \in 1..Len(j.v) : HoldsUnrepresentable(j.v[i])
    [] j.k = "obj" -> \E m \in DOMAIN j.v : HoldsUnrepresentable(j.v[m])
    [] OTHER -> FALSE

\* C6 as stated: decoding fails exactly when the bytes are not well-formed
\* JSON of the expected shape or pay_amount is a string that is no number
C6_FailsOnlyOnShapeOrAmountString ==
  DecodeDone => (ret.err # NoError <=> (~WellShaped(b) \/ BadAmountString(b)))

\* C6: decoding fails exactly when the bytes are not well-formed JSON of the
\* expected shape, or pay_amount is a string strconv.ParseFloat rejects (no
\* number, or one outside the range of float64), or payment_id or pay_amount
\* is or holds a JSON number outside the range of float64
C6_FailsExactlyWhen ==
  DecodeDone =>
    (ret.err # NoError <=>
       \/ ~WellShaped(b)
       \/ BadAmountString(b)
       \/ b.k = "obj" /\ \/ HoldsUnrepresentable(Member(b, "payment_id"))
                         \/ HoldsUnrepresentable(Member(b, "pay_amount")))

C6_Witness ==
  /\ DecodeDone /\ WellShaped(b) /\ BadAmountString(b)
  /\ Member(b, "payment_id").k = "num"
  /\ ret.err = Wrap(Err("syntax"), "parsing pay_amount as a float")

\* The value a field of type typ takes from the JSON value j
ValueOf(typ, j) ==
  CASE typ = "string"  -> j.v
    [] typ = "float64" -> ParseFloat(j.v).f
    [] typ = "int"     -> ParseInt(j.v).n

\* Every field of the entity q without wire ambiguity, those of the
\* embedded PaymentAmount included, has the value the response raw carries
\* for its key
Carries(q, raw) ==
  \A i \in 1..Len(SpFields) :
     (SpFields[i].typ # "any" /\ Member(raw, SpFields[i].key).k \in {"str", "num"})
        => GetField(q, SpFields[i].path) = ValueOf(SpFields[i].typ, Member(raw, SpFields[i].key))

\* C7: with payment_id (pay_amount) absent, null, a boolean, an array or an
\* object, decoding succeeds, the identifier is empty (the pay amount 0.0)
\* and the other fields have the values of the response
C7_ZeroValueAndRestPopulated ==
  LET Lenient(key) == Member(b, key).k \in {"absent", "null", "bool", "arr", "obj"}
  IN  (DecodeDone /\ WellShaped(b) /\ b.k = "obj" /\ ~BadAmountString(b)
         /\ (Lenient("payment_id") \/ Lenient("pay_amount")))
        => /\ ret.err = NoError
           /\ Lenient("payment_id") => p.ID = <<>>
           /\ Lenient("pay_amount") => IsZeroF64(p.PayAmount)
           /\ Carries(p, b)

\* The keys of the members of a request body
KeysOf(d) == {d[n].key : n \in 1..Len(d)}

\* The keys of the optional fields of PaymentArgs
OptionalKeys ==
  {"pay_currency", "ipn_callback_url", "order_id", "order_description",
   "is_fee_paid_by_user", "fixed_rate", "payout_address", "pay_amount",
   "payout_currency", "payout_extra_id", "purchase_id", "case"}

\* C8: the body New sends has the key of an optional field of PaymentArgs
\* exactly when the field is not zero, always has price_amount and
\* price_currency, each key once, and has no null
C8_OptionalKeysIffSet ==
  (pc = "done" /\ op = "New" /\ Len(calls) = 1) =>
     /\ \A i \in 1..Len(PaymentArgsFields) :
           PaymentArgsFields[i].key \in KeysOf(calls[1].Body)
             <=> \/ PaymentArgsFields[i].key \notin OptionalKeys
                 \/ ~isEmptyValue(PaymentArgsFields[i].typ,
                                  GetField(pa.v, PaymentArgsFields[i].path))
     /\ KeysOf(calls[1].Body) \subseteq {PaymentArgsFields[i].key : i \in 1..Len(PaymentArgsFields)}
     /\ Cardinality(KeysOf(calls[1].Body)) = Len(calls[1].Body)
     /\ \A n \in 1..Len(calls[1].Body) : calls[1].Body[n].val.k # "null"

C8_Witness ==
  /\ pc = "done" /\ op = "New" /\ Len(calls) = 1
  /\ KeysOf(calls[1].Body) = {"price_amount", "price_currency"}
  /\ pa.v.PaymentAmount.PriceAmount = Ten

\* C9: after a decoding without error every field without wire ambiguity
\* has the value of the response, pay_currency in the entity's own field
\* and in that of the embedded PaymentAmount
C9_FieldsCarried ==
  (DecodeDone /\ ret.err = NoError /\ b.k = "obj") => Carries(p, b)

\* C10: a call of UnmarshalJSON that returns an error leaves the receiver as
\* it was
C10_ReceiverKeptOnError ==
  [][(op' = "UnmarshalJSON" /\ ret'.err # NoError) => p' = p]_vars

C10_Witness ==
  DecodeDone /\ p # ZeroPayment /\ Member(b, "pay_currency") = JStr(<<"e", "t", "h">>)
    /\ ret.err = Wrap(Err("syntax"), "parsing pay_amount as a float")

====
